---- MODULE Spec2Model ----
(***************************************************************************)
(* Storage facade (StorageInterface) and export manager (ExportManager)    *)
(* of tvb-root: the folder sync queue with its consumer threads, the       *)
(* project rename, move_datatype_with_sync, the export operations, the     *)
(* encryption and zip methods that go through an attribute of the facade,  *)
(* and get_allen_mouse_cache_folder.                                       *)
(*                                                                         *)
(* DataEncryptionHandler, EncryptionHandler, FoldersQueueConsumer,         *)
(* FilesHelper and TvbZip are imported by storage_interface.py but their   *)
(* code is not part of the sources at hand; the definitions that model     *)
(* them follow the specification text and say so in their comment.         *)
(***************************************************************************)
EXTENDS Integers, Sequences, FiniteSets, TLC

\* ------------------------------------------------------------------------
\* Bounds of the model
\* ------------------------------------------------------------------------
MaxCount == 2        \* largest value a usage / running-operation counter takes
MaxQueue == 2        \* largest number of pending requests in the sync queue
MaxRenames == 2      \* largest number of rename_project calls in a behaviour
MaxCalls == 2        \* largest number of export staging folders built
MaxDts == 2          \* longest list of visible datatypes passed to export_project
MaxDepth == 5        \* frames a thread may stack before the interpreter raises RecursionError

\* Project names (a project folder is identified by the project name).
Names == {"P", "Q"}
\* Project folders the counter and move operations are called with.
SyncFolders == {"P"}
\* StorageInterface objects of the process (each ExportManager builds one).
Instances == {"s1", "s2"}
\* Request threads that call move_datatype_with_sync.
Movers == {"t1", "t2"}

NoItem == [folder |-> "none", dir |-> "none"]

\* Operation ids of the exported project (an operation folder is named by
\* the id) and the folders of the project tree.
Ops == {"1", "2"}
ProjectDirs == Ops \cup {"TEMP"}

\* Folder name of the import operation that owns the links of an export.
LinksFolder == "links-to-external-projects"

\* No export_project has returned yet; no remove_project was called yet.
NoLast == [set |-> FALSE, inputs |-> <<>>, entries |-> {}]
NoRemove == [pc |-> "idle", project |-> "none", status |-> "none",
             enc0 |-> FALSE, key0 |-> FALSE]

\* self.tvb_zip = None, and the record of "no export call yet".
NoZip == [set |-> FALSE, path |-> 0, open |-> FALSE, mode |-> "none"]

NoCall == [op |-> "none", pc |-> "idle", status |-> "none", folder |-> 0,
           result |-> 0, packs |-> <<>>, todo |-> <<>>, produced |-> {},
           stripped |-> FALSE, optimize |-> FALSE, exclude |-> {},
           linked |-> "None", vms |-> <<>>, dts |-> <<>>,
           importOp |-> "None", args |-> <<>>]

\* Directory identifiers handed to the encryption methods, and the threads
\* that call them on one StorageInterface.
DirGids == {"g1", "g2"}
Callers == {"c1", "c2"}

\* No encryption call, no tvb_zip call of another thread and no
\* get_allen_mouse_cache_folder call was made yet.
NoHandlerCall == [op |-> "none", dir_gid |-> "none", pc |-> "idle",
                  acted |-> "none", result |-> "none"]
NoZipCall == [op |-> "none", pc |-> "idle", path |-> 0, used |-> 0]
NoAllenCall == [pc |-> "idle", project |-> "none", depth |-> 0,
                status |-> "none"]

VARIABLES
    encryptionEnabled,  \* DataEncryptionHandler.encryption_enabled()
    usage,              \* projectUsageCount per folder
    running,            \* runningOpCount per folder
    queue,              \* SyncQueue: sequence of [folder, dir] requests
    plain,              \* names whose plaintext project folder exists on disk
    enc,                \* names whose encrypted counterpart exists on disk
    errorLogged,        \* the consumer has logged a failed queue item
    constructed,        \* StorageInterface objects built so far
    cthread,            \* per instance: state of its FoldersQueueConsumer thread
    citem,              \* per instance: the queue item its consumer is processing
    mpc,                \* per mover thread: position in move_datatype_with_sync
    mdir,               \* per mover thread: direction its sync_folders call applies
    renameResult,       \* outcome of the last rename_project call
    tvbZip,             \* StorageInterface.tvb_zip of the export manager's facade
    archives,           \* zip files on disk: path -> entries written so far
    staging,            \* export staging folders on disk: folder -> paths in it
    clock,              \* number of staging folders built (the timestamp)
    ecall,              \* the export call in progress, or the last one
    tree,               \* folders in the tree of the exported project
    last,               \* inputs and entries of the last export_project that returned
    keys,               \* names whose project key file exists on disk
    rm,                 \* the remove_project call in progress, or the last one
    encryptionHandler,  \* StorageInterface.encryption_handler: the dir_gid it was built for
    hcall,              \* per caller thread: its encryption call on the facade
    encDirs,            \* dir_gids whose encrypted directory exists on disk
    passFiles,          \* dir_gids whose password file exists on disk
    zcall,              \* the namelist / unpack_zip / initialize_tvb_zip call of another thread
    acall               \* per caller thread: its get_allen_mouse_cache_folder call

removeVars == <<keys, rm>>

syncVars == <<encryptionEnabled, usage, running, queue, plain, enc, errorLogged,
              constructed, cthread, citem, mpc, mdir, renameResult, removeVars>>

exportVars == <<tvbZip, archives, staging, clock, ecall, tree, last>>

\* The other lazily set attributes of the facade and the calls that use them.
facadeVars == <<encryptionHandler, hcall, encDirs, passFiles, zcall, acall>>

vars == <<syncVars, exportVars, facadeVars>>

\* ------------------------------------------------------------------------
\* DataEncryptionHandler (modelled from the specification, sections 3 and 4.2)
\* ------------------------------------------------------------------------
Request(f, d) == [folder |-> f, dir |-> d]

\* Direction inferred from the folder's current counters: decrypt if a
\* counter is positive, encrypt if both are zero.
Direction(f) == IF usage[f] = 0 /\ running[f] = 0 THEN "enc" ELSE "dec"

\* is_in_usage: the folder is in active use (a counter is non-zero).
is_in_usage(f) == usage[f] > 0 \/ running[f] > 0

\* Queue after an increment that found the counter at `old`: a 0 -> 1
\* transition enqueues a decrypt request, nothing else is enqueued.
\* A handler that asks for encryption when a counter leaves zero.
QueueAfterInc_Encrypt(q, old, f) ==
    IF old = 0 THEN Append(q, Request(f, "enc")) ELSE q

QueueAfterInc(q, old, f) ==
    IF old = 0 THEN Append(q, Request(f, "dec")) ELSE q

\* Queue after a decrement that left the counter at `new` while the other
\* counter is `other`: the folder is queued for encryption when both are zero.
\* A handler that never asks for encryption when the counters reach zero.
QueueAfterDec_NoEnqueue(q, new, other, f) == q

QueueAfterDec(q, new, other, f) ==
    IF new = 0 /\ other = 0 THEN Append(q, Request(f, "enc")) ELSE q

\* Plaintext folders after a sync of folder f in direction d has completed.
PlainAfterSync(f, d) ==
    IF ~encryptionEnabled THEN plain
    ELSE IF d = "enc" THEN (IF f \in plain THEN plain \ {f} ELSE plain)
    ELSE (IF f \in enc THEN plain \cup {f} ELSE plain)

\* Encrypted counterparts after a sync of folder f in direction d has completed.
EncAfterSync(f, d) ==
    IF ~encryptionEnabled THEN enc
    ELSE IF d = "enc" /\ f \in plain THEN enc \cup {f}
    ELSE enc

\* The folder is encrypted on disk: only its ciphertext is present.
EncryptedOnDisk(f) == f \in enc /\ f \notin plain

\* ------------------------------------------------------------------------
\* StorageInterface: Data Encryption Handler methods
\* ------------------------------------------------------------------------
inc_project_usage_count(f) ==
    /\ usage[f] < MaxCount
    /\ Len(queue) < MaxQueue
    /\ usage' = [usage EXCEPT ![f] = @ + 1]
    /\ queue' = QueueAfterInc(queue, usage[f], f)
    /\ UNCHANGED <<encryptionEnabled, running, plain, enc, errorLogged,
                   constructed, cthread, citem, mpc, mdir, renameResult, exportVars, removeVars,
                   facadeVars>>

inc_running_op_count(f) ==
    /\ running[f] < MaxCount
    /\ Len(queue) < MaxQueue
    /\ running' = [running EXCEPT ![f] = @ + 1]
    /\ queue' = QueueAfterInc(queue, running[f], f)
    /\ UNCHANGED <<encryptionEnabled, usage, plain, enc, errorLogged,
                   constructed, cthread, citem, mpc, mdir, renameResult, exportVars, removeVars,
                   facadeVars>>

dec_running_op_count(f) ==
    /\ running[f] > 0
    /\ Len(queue) < MaxQueue
    /\ running' = [running EXCEPT ![f] = @ - 1]
    /\ queue' = QueueAfterDec(queue, running[f] - 1, usage[f], f)
    /\ UNCHANGED <<encryptionEnabled, usage, plain, enc, errorLogged,
                   constructed, cthread, citem, mpc, mdir, renameResult, exportVars, removeVars,
                   facadeVars>>

\* push_folder_to_sync(project_name): resolves the project folder and hands
\* it to the handler, which enqueues it with the direction inferred from
\* the current counters.
push_folder_to_sync(f) ==
    /\ Len(queue) < MaxQueue
    /\ queue' = Append(queue, Request(f, Direction(f)))
    /\ UNCHANGED <<encryptionEnabled, usage, running, plain, enc, errorLogged,
                   constructed, cthread, citem, mpc, mdir, renameResult, exportVars, removeVars,
                   facadeVars>>

\* ------------------------------------------------------------------------
\* StorageInterface construction and Folders Queue Consumer methods
\* ------------------------------------------------------------------------
\* __init__: every StorageInterface builds its own FoldersQueueConsumer and
\* shares the module-level encryption_handler (counters and queue).
StorageInterface_init(i) ==
    /\ i \notin constructed
    /\ constructed' = constructed \cup {i}
    /\ UNCHANGED <<encryptionEnabled, usage, running, queue, plain, enc,
                   errorLogged, cthread, citem, mpc, mdir, renameResult, exportVars, removeVars,
                   facadeVars>>

\* start(): starts the consumer thread of this instance (a thread object
\* can be started once).
start(i) ==
    /\ i \in constructed
    /\ cthread[i] = "new"
    /\ cthread' = [cthread EXCEPT ![i] = "idle"]
    /\ UNCHANGED <<encryptionEnabled, usage, running, queue, plain, enc,
                   errorLogged, constructed, citem, mpc, mdir, renameResult, exportVars, removeVars,
                   facadeVars>>

\* Consumer threads that are running.
RunningConsumers ==
    {i \in Instances :
        cthread[i] \in {"idle", "syncing", "marked", "syncing_marked"}}

\* The state of a consumer thread once the item in hand is dealt with: it
\* goes back to the queue, or, marked to stop, to the test of the mark.
AfterItem(state) == IF state = "syncing_marked" THEN "marked" ELSE "idle"

\* run(), pop: the consumer pops the oldest request and re-reads the
\* folder's current counters. A request whose direction still matches is
\* taken for processing; one whose transition was reversed is re-queued
\* with the current direction.
ConsumerPop(i) ==
    /\ cthread[i] = "idle"
    /\ queue # <<>>
    /\ LET item == Head(queue)
           cur  == Direction(item.folder)
       IN IF item.dir = cur
          THEN /\ queue' = Tail(queue)
               /\ citem' = [citem EXCEPT ![i] = item]
               /\ cthread' = [cthread EXCEPT ![i] = "syncing"]
          ELSE /\ queue' = Append(Tail(queue), Request(item.folder, cur))
               /\ UNCHANGED <<citem, cthread>>
    /\ UNCHANGED <<encryptionEnabled, usage, running, plain, enc, errorLogged,
                   constructed, mpc, mdir, renameResult, exportVars, removeVars,
                   facadeVars>>

\* run(), the encrypt / decrypt of the popped item completes.
ConsumerSyncDone(i) ==
    /\ cthread[i] \in {"syncing", "syncing_marked"}
    /\ plain' = PlainAfterSync(citem[i].folder, citem[i].dir)
    /\ enc' = EncAfterSync(citem[i].folder, citem[i].dir)
    /\ citem' = [citem EXCEPT ![i] = NoItem]
    /\ cthread' = [cthread EXCEPT ![i] = AfterItem(@)]
    /\ UNCHANGED <<encryptionEnabled, usage, running, queue, errorLogged,
                   constructed, mpc, mdir, renameResult, exportVars, removeVars,
                   facadeVars>>

\* run(), the encrypt / decrypt of the popped item fails: the error is
\* logged, the folder stays in its last state, the consumer goes on.
ConsumerSyncFails(i) ==
    /\ cthread[i] \in {"syncing", "syncing_marked"}
    /\ errorLogged' = TRUE
    /\ citem' = [citem EXCEPT ![i] = NoItem]
    /\ cthread' = [cthread EXCEPT ![i] = AfterItem(@)]
    /\ UNCHANGED <<encryptionEnabled, usage, running, queue, plain, enc,
                   constructed, mpc, mdir, renameResult, exportVars, removeVars,
                   facadeVars>>

\* A mark_stop that ends the thread at once, whatever it has in hand.
AfterMarkStop_Abort(state) == "marked"

\* The state of a consumer thread once mark_stop has set its mark.
AfterMarkStop(state) == IF state = "syncing" THEN "syncing_marked" ELSE "marked"

\* mark_stop(): asks the running consumer of this instance to end; the
\* item in hand, if any, is left to finish.
mark_stop(i) ==
    /\ cthread[i] \in {"idle", "syncing"}
    /\ cthread' = [cthread EXCEPT ![i] = AfterMarkStop(@)]
    /\ UNCHANGED <<encryptionEnabled, usage, running, queue, plain, enc,
                   errorLogged, constructed, citem, mpc, mdir, renameResult, exportVars, removeVars,
                   facadeVars>>

\* run(), the loop finds the mark before the next pop and the thread ends.
ConsumerExit(i) ==
    /\ cthread[i] = "marked"
    /\ cthread' = [cthread EXCEPT ![i] = "exited"]
    /\ UNCHANGED <<encryptionEnabled, usage, running, queue, plain, enc,
                   errorLogged, constructed, citem, mpc, mdir, renameResult, exportVars, removeVars,
                   facadeVars>>

\* join(): returns once the consumer thread of this instance has ended.
join(i) ==
    /\ cthread[i] = "exited"
    /\ cthread' = [cthread EXCEPT ![i] = "joined"]
    /\ UNCHANGED <<encryptionEnabled, usage, running, queue, plain, enc,
                   errorLogged, constructed, citem, mpc, mdir, renameResult, exportVars, removeVars,
                   facadeVars>>

\* ------------------------------------------------------------------------
\* StorageInterface.move_datatype_with_sync, one step per statement
\* ------------------------------------------------------------------------
\* set_project_active(to_project): the project's usage count goes up.
Move_set_project_active(t, f) ==
    /\ mpc[t] = "idle"
    /\ usage[f] < MaxCount
    /\ Len(queue) < MaxQueue
    /\ usage' = [usage EXCEPT ![f] = @ + 1]
    /\ queue' = QueueAfterInc(queue, usage[f], f)
    /\ mpc' = [mpc EXCEPT ![t] = "active"]
    /\ UNCHANGED <<encryptionEnabled, running, plain, enc, errorLogged,
                   constructed, cthread, citem, mdir, renameResult, exportVars, removeVars,
                   facadeVars>>

\* sync_folders(to_project_path), first call: DataEncryptionHandler.sync_folders
\* runs on the calling thread; it reads the counters and starts the sync.
Move_sync_folders_1(t, f) ==
    /\ mpc[t] = "active"
    /\ mdir' = [mdir EXCEPT ![t] = Direction(f)]
    /\ mpc' = [mpc EXCEPT ![t] = "sync1"]
    /\ UNCHANGED <<encryptionEnabled, usage, running, queue, plain, enc,
                   errorLogged, constructed, cthread, citem, renameResult, exportVars, removeVars,
                   facadeVars>>

\* The first sync returns; move_datatype of the data file starts.
Move_sync_1_returns(t, f) ==
    /\ mpc[t] = "sync1"
    /\ plain' = PlainAfterSync(f, mdir[t])
    /\ enc' = EncAfterSync(f, mdir[t])
    /\ mdir' = [mdir EXCEPT ![t] = "none"]
    /\ mpc' = [mpc EXCEPT ![t] = "moving_data"]
    /\ UNCHANGED <<encryptionEnabled, usage, running, queue, errorLogged,
                   constructed, cthread, citem, renameResult, exportVars, removeVars,
                   facadeVars>>

\* The data file is moved; move_datatype of the view-model file starts.
Move_data_file_moved(t) ==
    /\ mpc[t] = "moving_data"
    /\ mpc' = [mpc EXCEPT ![t] = "moving_vm"]
    /\ UNCHANGED <<encryptionEnabled, usage, running, queue, plain, enc,
                   errorLogged, constructed, cthread, citem, mdir, renameResult,
                   exportVars, removeVars, facadeVars>>

\* The view-model file is moved; the second sync_folders call starts.
Move_sync_folders_2(t, f) ==
    /\ mpc[t] = "moving_vm"
    /\ mdir' = [mdir EXCEPT ![t] = Direction(f)]
    /\ mpc' = [mpc EXCEPT ![t] = "sync2"]
    /\ UNCHANGED <<encryptionEnabled, usage, running, queue, plain, enc,
                   errorLogged, constructed, cthread, citem, renameResult, exportVars, removeVars,
                   facadeVars>>

\* The second sync returns.
Move_sync_2_returns(t, f) ==
    /\ mpc[t] = "sync2"
    /\ plain' = PlainAfterSync(f, mdir[t])
    /\ enc' = EncAfterSync(f, mdir[t])
    /\ mdir' = [mdir EXCEPT ![t] = "none"]
    /\ mpc' = [mpc EXCEPT ![t] = "synced2"]
    /\ UNCHANGED <<encryptionEnabled, usage, running, queue, errorLogged,
                   constructed, cthread, citem, renameResult, exportVars, removeVars,
                   facadeVars>>

\* set_project_inactive(to_project): the usage count goes down; the call returns.
Move_set_project_inactive(t, f) ==
    /\ mpc[t] = "synced2"
    /\ Len(queue) < MaxQueue
    /\ usage' = [usage EXCEPT ![f] = @ - 1]
    /\ queue' = QueueAfterDec(queue, usage[f] - 1, running[f], f)
    /\ mpc' = [mpc EXCEPT ![t] = "done"]
    /\ UNCHANGED <<encryptionEnabled, running, plain, enc, errorLogged,
                   constructed, cthread, citem, mdir, renameResult, exportVars, removeVars,
                   facadeVars>>

\* A sync_folders or move_datatype call raises: the exception leaves
\* move_datatype_with_sync (the method has no handler).
Move_raises(t) ==
    /\ mpc[t] \in {"sync1", "moving_data", "moving_vm", "sync2"}
    /\ mdir' = [mdir EXCEPT ![t] = "none"]
    /\ mpc' = [mpc EXCEPT ![t] = "raised"]
    /\ UNCHANGED <<encryptionEnabled, usage, running, queue, plain, enc,
                   errorLogged, constructed, cthread, citem, renameResult, exportVars, removeVars,
                   facadeVars>>

\* Threads that are inside DataEncryptionHandler.sync_folders.
MoversSyncing == {t \in Movers : mpc[t] \in {"sync1", "sync2"}}
ConsumersSyncing ==
    {i \in Instances : cthread[i] \in {"syncing", "syncing_marked"}}

\* ------------------------------------------------------------------------
\* Specification of the sync subsystem
\* ------------------------------------------------------------------------
\* The export state before any export call.
InitExport ==
    /\ tvbZip = NoZip
    /\ archives = [x \in {} |-> {}]
    /\ staging = [x \in {} |-> {}]
    /\ clock = 0
    /\ ecall = NoCall
    /\ tree = ProjectDirs
    /\ last = NoLast

\* No project has a key file and no remove_project call was made.
InitRemoveIdle ==
    /\ keys = {}
    /\ rm = NoRemove

\* self.encryption_handler = None after __init__; nothing encrypted on
\* disk, no call made.
InitFacade ==
    /\ encryptionHandler = "None"
    /\ hcall = [c \in Callers |-> NoHandlerCall]
    /\ encDirs = {}
    /\ passFiles = {}
    /\ zcall = NoZipCall
    /\ acall = [c \in Callers |-> NoAllenCall]

NoRename == [status |-> "none", from |-> "none", to |-> "none", n |-> 0]

Init ==
    /\ encryptionEnabled = TRUE
    /\ usage = [n \in Names |-> 0]
    /\ running = [n \in Names |-> 0]
    /\ queue = <<>>
    /\ plain = SyncFolders
    /\ enc = {}
    /\ errorLogged = FALSE
    /\ constructed = {}
    /\ cthread = [i \in Instances |-> "new"]
    /\ citem = [i \in Instances |-> NoItem]
    /\ mpc = [t \in Movers |-> "idle"]
    /\ mdir = [t \in Movers |-> "none"]
    /\ renameResult = NoRename
    /\ InitRemoveIdle
    /\ InitExport
    /\ InitFacade

Next ==
    \/ \E f \in SyncFolders : inc_project_usage_count(f)
    \/ \E f \in SyncFolders : inc_running_op_count(f)
    \/ \E f \in SyncFolders : dec_running_op_count(f)
    \/ \E f \in SyncFolders : push_folder_to_sync(f)
    \/ \E i \in Instances : StorageInterface_init(i)
    \/ \E i \in Instances : start(i)
    \/ \E i \in Instances : ConsumerPop(i)
    \/ \E i \in Instances : ConsumerSyncDone(i)
    \/ \E i \in Instances : ConsumerSyncFails(i)
    \/ \E t \in Movers, f \in SyncFolders : Move_set_project_active(t, f)
    \/ \E t \in Movers, f \in SyncFolders : Move_sync_folders_1(t, f)
    \/ \E t \in Movers, f \in SyncFolders : Move_sync_1_returns(t, f)
    \/ \E t \in Movers : Move_data_file_moved(t)
    \/ \E t \in Movers, f \in SyncFolders : Move_sync_folders_2(t, f)
    \/ \E t \in Movers, f \in SyncFolders : Move_sync_2_returns(t, f)
    \/ \E t \in Movers, f \in SyncFolders : Move_set_project_inactive(t, f)
    \/ \E t \in Movers : Move_raises(t)

Spec == Init /\ [][Next]_vars

\* ------------------------------------------------------------------------
\* StorageInterface.rename_project
\* ------------------------------------------------------------------------
\* The guard of rename_project: the rename is refused when encryption is
\* enabled and the project folder is not in usage.
\* The refusal with the test on the usage turned around.
RenameRefused_WhenInUse(f) == encryptionEnabled /\ is_in_usage(f)

RenameRefused(f) == encryptionEnabled /\ ~is_in_usage(f)

\* rename_project_structure (FilesHelper, modelled from the specification):
\* the plaintext project folder is renamed.
PlainAfterRename(cur, new) ==
    IF cur \in plain THEN (plain \ {cur}) \cup {new} ELSE plain

\* The encrypted counterpart, when it exists, is moved to the path computed
\* from the new name.
EncAfterRename(cur, new) ==
    IF cur \in enc THEN (enc \ {cur}) \cup {new} ELSE enc

\* Names under which a project folder (plaintext or encrypted) is stored.
ProjectFolders == plain \cup enc

rename_project(cur, new) ==
    /\ renameResult.n < MaxRenames
    /\ cur \in ProjectFolders
    /\ new \in Names \ ProjectFolders
    /\ IF RenameRefused(cur)
       THEN /\ renameResult' = [status |-> "raised", from |-> cur, to |-> new,
                                n |-> renameResult.n + 1]
            /\ UNCHANGED <<plain, enc>>
       ELSE /\ plain' = PlainAfterRename(cur, new)
            /\ enc' = EncAfterRename(cur, new)
            /\ renameResult' = [status |-> "renamed", from |-> cur, to |-> new,
                                n |-> renameResult.n + 1]
    /\ UNCHANGED <<encryptionEnabled, usage, running, queue, errorLogged,
                   constructed, cthread, citem, mpc, mdir, exportVars, removeVars,
                   facadeVars>>

\* Specification of rename_project: the counters of the project folders
\* change, one consumer drains the queue, projects are renamed.
RenameInstance == "s1"

InitRename ==
    /\ encryptionEnabled \in BOOLEAN
    /\ usage = [n \in Names |-> 0]
    /\ running = [n \in Names |-> 0]
    /\ queue = <<>>
    /\ plain = SyncFolders
    /\ enc = {}
    /\ errorLogged = FALSE
    /\ constructed = {RenameInstance}
    /\ cthread = [i \in Instances |-> "new"]
    /\ citem = [i \in Instances |-> NoItem]
    /\ mpc = [t \in Movers |-> "idle"]
    /\ mdir = [t \in Movers |-> "none"]
    /\ renameResult = NoRename
    /\ InitRemoveIdle
    /\ InitExport
    /\ InitFacade

NextRename ==
    \/ \E f \in ProjectFolders : inc_project_usage_count(f)
    \/ \E f \in ProjectFolders : inc_running_op_count(f)
    \/ \E f \in ProjectFolders : dec_running_op_count(f)
    \/ start(RenameInstance)
    \/ ConsumerPop(RenameInstance)
    \/ ConsumerSyncDone(RenameInstance)
    \/ ConsumerSyncFails(RenameInstance)
    \/ \E cur \in Names, new \in Names : rename_project(cur, new)

SpecRename == InitRename /\ [][NextRename]_vars

\* ------------------------------------------------------------------------
\* Export: values
\* ------------------------------------------------------------------------
\* ExportManager.all_exporters after __init__.
RegisteredExporters == {"TVBExporter", "TVBLinkedExporter"}

\* Files an exporter may produce into the staging folder.
ExportFiles == {<<"", "", "exported.h5">>}

\* View-model and dataset references of a burst, as gathered for export.
VmLists == {<<"vm_root">>, <<"vm_root", "vm_a">>}
DtLists == {<<>>, <<"dt_a">>}

\* Lists of visible datatypes, each given by its fk_from_operation.
RECURSIVE SeqsUpTo(_, _)
SeqsUpTo(S, n) ==
    IF n = 0 THEN {<<>>}
    ELSE LET shorter == SeqsUpTo(S, n - 1)
         IN shorter \cup {Append(q, x) : q \in shorter, x \in S}

\* No export call is in progress.
CallFree == ecall.pc \in {"idle", "done"}

\* A function without the key k.
Without(f, k) == [x \in DOMAIN f \ {k} |-> f[x]]

\* ------------------------------------------------------------------------
\* StorageInterface: TvbZip methods and build_data_export_folder
\* ------------------------------------------------------------------------
\* build_data_export_folder: a folder named by the timestamp and the gid is
\* created under the export folder.
StagingAfterBuild(now) == (now :> {}) @@ staging

\* initialize_tvb_zip(dest_path, mode): self.tvb_zip becomes a new TvbZip.
ZipAfterInitialize(dest, mode) ==
    [set |-> TRUE, path |-> dest, open |-> TRUE, mode |-> mode]

\* close_tvb_zip: self.tvb_zip.close(), on whatever self.tvb_zip holds.
ZipAfterClose(zip) == [zip EXCEPT !.open = FALSE]

\* TvbZip.write_zip_folder (modelled from the specification): the files
\* under `folder` go into the archive under the path prefix, those named in
\* the exclusion list left out. A path that is no folder holds no files.
ZipFolderEntries(pack) ==
    IF pack.kind = "op"
    THEN {<<pack.prefix, f>> : f \in {"datatype.h5"} \ pack.exclude}
    ELSE IF pack.kind = "project"
    THEN {<<d \o "/", "datatype.h5">> :
                d \in (tree \cap ProjectDirs) \ pack.exclude}
            \cup {<<"", f>> : f \in {"Project.xml"} \ pack.exclude}
    ELSE {}

\* write_zip_folder / write_zip_arc of the facade: what the call does for
\* the current self.tvb_zip.
ZipWriteOutcome(entries) ==
    IF ~tvbZip.set THEN "AttributeError"
    ELSE IF entries # {} /\ (~tvbZip.open \/ tvbZip.mode = "r") THEN "ValueError"
    ELSE "ok"

ArchivesAfterWrite(entries) ==
    IF ZipWriteOutcome(entries) = "ok" /\ tvbZip.path \in DOMAIN archives
    THEN [archives EXCEPT ![tvbZip.path] = @ \cup entries]
    ELSE archives

\* namelist(dest_path): opens the archive into self.tvb_zip, lists it and
\* closes it.
namelist(p) ==
    /\ p \in DOMAIN archives
    /\ tvbZip # ZipAfterClose(ZipAfterInitialize(p, "r"))
    /\ tvbZip' = ZipAfterClose(ZipAfterInitialize(p, "r"))
    /\ UNCHANGED <<facadeVars, syncVars, tree, last, archives, staging, clock, ecall>>

\* ------------------------------------------------------------------------
\* ExportManager.export_data
\* ------------------------------------------------------------------------
\* Checks that report a rejection by the exporter as an ExportException.
ExportDataValidation_RejectIsFailure(data, exporter_id, project, accepts) ==
    IF data = "None" THEN "InvalidExportDataException"
    ELSE IF exporter_id = "None" THEN "ExportException"
    ELSE IF exporter_id \notin RegisteredExporters THEN "ExportException"
    ELSE IF project = "None" THEN "ExportException"
    ELSE IF ~accepts THEN "ExportException"
    ELSE "ok"

\* Checks that leave out the test of the project.
ExportDataValidation_NoProjectTest(data, exporter_id, project, accepts) ==
    IF data = "None" THEN "InvalidExportDataException"
    ELSE IF exporter_id = "None" THEN "ExportException"
    ELSE IF exporter_id \notin RegisteredExporters THEN "ExportException"
    ELSE IF ~accepts THEN "InvalidExportDataException"
    ELSE "ok"

\* The checks of export_data before the export starts.
ExportDataValidation(data, exporter_id, project, accepts) ==
    IF data = "None" THEN "InvalidExportDataException"
    ELSE IF exporter_id = "None" THEN "ExportException"
    ELSE IF exporter_id \notin RegisteredExporters THEN "ExportException"
    ELSE IF project = "None" THEN "ExportException"
    ELSE IF ~accepts THEN "InvalidExportDataException"
    ELSE "ok"

\* The finally clause: the staging folder is removed when it was created
\* and holds nothing.
\* A finally clause that removes the staging folder whatever it holds.
ExportDataFinally_Always(folder) ==
    IF folder = 0 THEN staging ELSE Without(staging, folder)

ExportDataFinally(folder) ==
    IF folder = 0 THEN staging
    ELSE IF staging[folder] = {} THEN Without(staging, folder)
    ELSE staging

\* export_data up to the call of the exporter; `created` is whether
\* build_data_export_folder succeeds.
export_data(data, exporter_id, project, accepts, created) ==
    /\ CallFree
    /\ LET v == ExportDataValidation(data, exporter_id, project, accepts)
           call == [NoCall EXCEPT
                        !.op = "export_data",
                        !.args = <<data, exporter_id, project, accepts>>]
       IN
       IF v # "ok"
       THEN /\ ecall' = [call EXCEPT !.pc = "done", !.status = v]
            /\ UNCHANGED <<staging, clock>>
       ELSE IF ~created
       THEN /\ ecall' = [call EXCEPT !.pc = "done", !.status = "OSError"]
            /\ staging' = ExportDataFinally(0)
            /\ UNCHANGED clock
       ELSE /\ clock < MaxCalls
            /\ clock' = clock + 1
            /\ staging' = StagingAfterBuild(clock + 1)
            /\ ecall' = [call EXCEPT !.pc = "exporting",
                                     !.status = "running",
                                     !.folder = clock + 1]
    /\ UNCHANGED <<facadeVars, syncVars, tree, last, tvbZip, archives>>

\* exporter.export writes a file into the staging folder.
exporter_writes_file(file) ==
    /\ ecall.op = "export_data" /\ ecall.pc = "exporting"
    /\ file \notin staging[ecall.folder]
    /\ staging' = [staging EXCEPT ![ecall.folder] = @ \cup {file}]
    /\ ecall' = [ecall EXCEPT !.produced = @ \cup {file}]
    /\ UNCHANGED <<facadeVars, syncVars, tree, last, tvbZip, archives, clock>>

\* exporter.export returns; the finally clause runs; export_data returns.
export_data_returns ==
    /\ ecall.op = "export_data" /\ ecall.pc = "exporting"
    /\ staging' = ExportDataFinally(ecall.folder)
    /\ ecall' = [ecall EXCEPT !.pc = "done", !.status = "returned",
                              !.result = ecall.folder]
    /\ UNCHANGED <<facadeVars, syncVars, tree, last, tvbZip, archives, clock>>

\* exporter.export raises; the finally clause runs; the exception leaves
\* export_data.
export_data_raises ==
    /\ ecall.op = "export_data" /\ ecall.pc = "exporting"
    /\ staging' = ExportDataFinally(ecall.folder)
    /\ ecall' = [ecall EXCEPT !.pc = "done", !.status = "ExporterError"]
    /\ UNCHANGED <<facadeVars, syncVars, tree, last, tvbZip, archives, clock>>

\* ------------------------------------------------------------------------
\* StorageInterface.export_project
\* ------------------------------------------------------------------------
\* An optimized mode that packs the operation folder of every datatype.
RECURSIVE OptimizedPacks_NoDedup(_, _, _)
OptimizedPacks_NoDedup(dts, considered, exclude) ==
    IF dts = <<>> THEN <<>>
    ELSE <<[kind |-> "op", name |-> Head(dts), prefix |-> Head(dts) \o "/",
            exclude |-> exclude]>>
         \o OptimizedPacks_NoDedup(Tail(dts), considered, exclude)

\* Optimized mode: one pack per operation id among the datatypes that was
\* not considered yet, in list order.
RECURSIVE OptimizedPacks(_, _, _)
OptimizedPacks(dts, considered, exclude) ==
    IF dts = <<>> THEN <<>>
    ELSE LET op_id == Head(dts) IN
         IF op_id \notin considered
         THEN <<[kind |-> "op", name |-> op_id, prefix |-> op_id \o "/",
                 exclude |-> exclude]>>
              \o OptimizedPacks(Tail(dts), considered \cup {op_id}, exclude)
         ELSE OptimizedPacks(Tail(dts), considered, exclude)

\* A full mode that packs the project folder with the exclusion list as
\* it was handed in.
FullPacks_KeepTemp(project, exclude) ==
    <<[kind |-> "project", name |-> project, prefix |-> "",
       exclude |-> exclude]>>

\* Full mode: TEMP is appended to the exclusion list and the whole project
\* folder is the one pack.
FullPacks(project, exclude) ==
    <<[kind |-> "project", name |-> project, prefix |-> "",
       exclude |-> exclude \cup {"TEMP"}]>>

\* to_be_exported_folders of export_project.
ToBeExportedFolders(project, dts, exclude, optimize_size) ==
    IF optimize_size THEN OptimizedPacks(dts, {}, exclude)
    ELSE FullPacks(project, exclude)

\* Entries all packs of a list write.
RECURSIVE PackEntries(_)
PackEntries(packs) ==
    IF packs = <<>> THEN {}
    ELSE ZipFolderEntries(Head(packs)) \cup PackEntries(Tail(packs))

\* Entries export_datatypes writes for the linked paths, under the folder
\* name of the import operation.
LinkedEntries(linked) ==
    IF linked = "None" THEN {}
    ELSE {<<LinksFolder \o "/", linked>>}

\* Project.xml is written in optimized mode.
ProjectXmlEntries(optimize_size) ==
    IF optimize_size THEN {<<"", "Project.xml">>} ELSE {}

\* export_project up to initialize_tvb_zip: the packs are computed, the
\* staging folder is built, the archive is opened for writing. The list
\* of datatypes is a local of the call and is kept until the call ends.
export_project(project, dts, exclude, linked, optimize_size) ==
    /\ CallFree
    /\ clock < MaxCalls
    /\ clock' = clock + 1
    /\ staging' = [StagingAfterBuild(clock + 1) EXCEPT
                       ![clock + 1] = {<<"", "", "zip">>}]
    /\ archives' = ((clock + 1) :> {}) @@ archives
    /\ tvbZip' = ZipAfterInitialize(clock + 1, "w")
    /\ ecall' = [NoCall EXCEPT
                    !.op = "facade_export_project",
                    !.pc = "packing",
                    !.status = "running",
                    !.folder = clock + 1,
                    !.packs = ToBeExportedFolders(project, dts, exclude,
                                                  optimize_size),
                    !.exclude = exclude,
                    !.optimize = optimize_size,
                    !.dts = dts,
                    !.linked = linked]
    /\ UNCHANGED <<facadeVars, syncVars, tree, last>>

\* export_datatypes: get_operation_folder makes the folder of the import
\* operation in the project tree; remove_folder takes it away again once
\* the linked files are written.
TreeWithLinksFolder(t, linked) ==
    IF linked = "None" THEN t ELSE t \cup {LinksFolder}

\* An export_datatypes that leaves the folder of the import operation.
TreeAfterExportDatatypes_Keep(t, linked) == TreeWithLinksFolder(t, linked)

TreeAfterExportDatatypes(t, linked) ==
    IF linked = "None" THEN t ELSE TreeWithLinksFolder(t, linked) \ {LinksFolder}

\* The packs, the linked datatypes and Project.xml are written into
\* self.tvb_zip, the archive is closed and the path returned; a write
\* that finds no archive to write to ends the call.
export_project_writes ==
    /\ ecall.op = "facade_export_project" /\ ecall.pc = "packing"
    /\ LET entries == PackEntries(ecall.packs)
                        \cup LinkedEntries(ecall.linked)
                        \cup ProjectXmlEntries(ecall.optimize)
           outcome == ZipWriteOutcome(entries)
       IN IF outcome = "ok"
          THEN /\ archives' = ArchivesAfterWrite(entries)
               /\ tvbZip' = ZipAfterClose(tvbZip)
               /\ tree' = TreeAfterExportDatatypes(tree, ecall.linked)
               /\ ecall' = [ecall EXCEPT !.pc = "done", !.status = "returned",
                                         !.dts = <<>>,
                                         !.result = ecall.folder]
          ELSE /\ ecall' = [ecall EXCEPT !.pc = "done", !.status = outcome,
                                         !.dts = <<>>]
               /\ UNCHANGED <<archives, tvbZip, tree>>
    /\ UNCHANGED <<facadeVars, syncVars, staging, clock>>

\* The packs are written, then write_zip_arc raises on a linked file that
\* cannot be read: the exception leaves export_project with the archive
\* open and the folder of the import operation in the project tree.
export_project_link_raises ==
    /\ ecall.op = "facade_export_project" /\ ecall.pc = "packing"
    /\ ecall.linked # "None"
    /\ ZipWriteOutcome(PackEntries(ecall.packs)) = "ok"
    /\ archives' = ArchivesAfterWrite(PackEntries(ecall.packs))
    /\ tree' = TreeWithLinksFolder(tree, ecall.linked)
    /\ ecall' = [ecall EXCEPT !.pc = "done", !.status = "OSError",
                              !.dts = <<>>]
    /\ UNCHANGED <<facadeVars, syncVars, last, tvbZip, staging, clock>>

\* What is remembered of an export_project that has returned: the packs
\* its arguments came to, the links, the mode, and the entry names of its
\* archive.
ExportInputs == <<ecall.packs, ecall.linked, ecall.optimize>>
LastAfterExport ==
    IF ecall'.status = "returned"
    THEN [set |-> TRUE, inputs |-> ExportInputs,
          entries |-> archives'[ecall'.result]]
    ELSE last

\* ------------------------------------------------------------------------
\* ExportManager.export_project
\* ------------------------------------------------------------------------
\* Parameters of StorageInterface.export_project (after self) and the
\* arguments ExportManager.export_project passes, by position.
FacadeExportProjectParams ==
    <<"project", "project_datatypes", "folders_to_exclude", "export_folder",
      "linked_paths", "op", "optimize_size">>
ManagerExportProjectArgs ==
    <<"project", "folders_to_exclude", "export_folder", "linked_paths", "op">>

\* A call with positional arguments only, of a function whose parameters
\* are all required: it binds when the counts agree and is a TypeError
\* otherwise.
BindPositional(params, args) ==
    IF Len(args) = Len(params) THEN "bound" ELSE "TypeError"

\* What ExportManager.export_project comes to before the facade runs.
ManagerExportProjectOutcome(project) ==
    IF project = "None" THEN "ExportException"
    ELSE BindPositional(FacadeExportProjectParams, ManagerExportProjectArgs)

\* _export_linked_datatypes: (None, None) when the project has no linked
\* datatype, else the paths and an import operation with the fixed id,
\* marked finished.
ExportLinkedDatatypes(linked_paths) ==
    IF linked_paths = "None"
    THEN [paths |-> "None", op |-> "None"]
    ELSE [paths |-> linked_paths,
          op |-> [id |-> "links-to-external-projects",
                  status |-> "STATUS_FINISHED"]]

\* ExportManager.export_project(project): the operations with error and
\* the linked datatype paths (`stored`) are looked up and the facade is
\* called.
manager_export_project(project, stored) ==
    /\ CallFree
    /\ LET outcome == ManagerExportProjectOutcome(project)
           links == ExportLinkedDatatypes(stored)
       IN
       IF outcome = "bound"
       THEN \E errorOps \in SUBSET Ops :
                export_project(project, <<>>, errorOps, links.paths, FALSE)
       ELSE /\ ecall' = [NoCall EXCEPT
                            !.op = "export_project",
                            !.pc = "done",
                            !.status = outcome,
                            !.args = <<project>>,
                            !.linked = IF project = "None" THEN "None"
                                       ELSE links.paths,
                            !.importOp = IF project = "None" THEN "None"
                                         ELSE links.op]
            /\ UNCHANGED <<facadeVars, syncVars, tree, last, tvbZip, archives,
                           staging, clock>>

\* ------------------------------------------------------------------------
\* ExportManager.export_simulator_configuration
\* ------------------------------------------------------------------------
\* Entries of the staging folder: the exported_simulation directory itself,
\* a view-model copied into it, a dataset copied into its datatypes
\* directory.
SimFolder == <<"exported_simulation", "", "">>
VmDest(vm) == <<"exported_simulation", "", vm>>
DtDest(dt) == <<"exported_simulation", "datatypes", dt>>

\* The copies to make, in the order of the two loops.
RECURSIVE CopyPlan(_, _)
CopyPlan(vms, dts) ==
    IF vms # <<>> THEN <<VmDest(Head(vms))>> \o CopyPlan(Tail(vms), dts)
    ELSE IF dts # <<>> THEN <<DtDest(Head(dts))>> \o CopyPlan(vms, Tail(dts))
    ELSE <<>>

\* remove_folder(tmp_sim_folder): the directory and all under it go.
WithoutSimFolder(files) == {e \in files : e[1] # "exported_simulation"}

\* The call up to the copy loops: the burst is looked up, the export folder
\* and exported_simulation are created, the references are gathered.
export_simulator_configuration(burst, vms, dts) ==
    /\ CallFree
    /\ IF burst = "None"
       THEN /\ ecall' = [NoCall EXCEPT
                            !.op = "export_simulator_configuration",
                            !.pc = "done",
                            !.status = "InvalidExportDataException"]
            /\ UNCHANGED <<staging, clock>>
       ELSE /\ clock < MaxCalls
            /\ clock' = clock + 1
            /\ staging' = [StagingAfterBuild(clock + 1) EXCEPT
                               ![clock + 1] = {SimFolder}]
            /\ ecall' = [NoCall EXCEPT
                            !.op = "export_simulator_configuration",
                            !.pc = "copying",
                            !.status = "running",
                            !.folder = clock + 1,
                            !.vms = vms,
                            !.dts = dts,
                            !.todo = CopyPlan(vms, dts)]
    /\ UNCHANGED <<facadeVars, syncVars, tree, last, tvbZip, archives>>

\* copy_file of the next view-model or dataset.
sim_copy_file ==
    /\ ecall.op = "export_simulator_configuration" /\ ecall.pc = "copying"
    /\ ecall.todo # <<>>
    /\ staging' = [staging EXCEPT ![ecall.folder] = @ \cup {Head(ecall.todo)}]
    /\ ecall' = [ecall EXCEPT !.todo = Tail(@),
                              !.produced = @ \cup {Head(ecall.todo)}]
    /\ UNCHANGED <<facadeVars, syncVars, tree, last, tvbZip, archives, clock>>

\* copy_file raises (source missing, disk full): the exception leaves the
\* call.
sim_copy_raises ==
    /\ ecall.op = "export_simulator_configuration" /\ ecall.pc = "copying"
    /\ ecall.todo # <<>>
    /\ ecall' = [ecall EXCEPT !.pc = "done", !.status = "OSError"]
    /\ UNCHANGED <<facadeVars, syncVars, tree, last, tvbZip, archives, staging, clock>>

\* remove_metadata_param raises: the exception leaves the call.
sim_strip_raises ==
    /\ ecall.op = "export_simulator_configuration" /\ ecall.pc = "copying"
    /\ ecall.todo = <<>>
    /\ ecall' = [ecall EXCEPT !.pc = "done", !.status = "OSError"]
    /\ UNCHANGED <<facadeVars, syncVars, tree, last, tvbZip, archives, staging, clock>>

\* The call made on line 226: write_zip_folder(result_path, tmp_sim_folder)
\* binds result_path to `folder` and tmp_sim_folder to the path prefix;
\* result_path is no folder, so there is nothing to write.
SimZipEntries == ZipFolderEntries([kind |-> "file", name |-> "zip",
                                   prefix |-> "exported_simulation",
                                   exclude |-> {}])

\* history_gid is removed from the staged root view-model, write_zip_folder
\* is called, exported_simulation is removed and the path returned; when
\* write_zip_folder raises the exception leaves the call.
sim_strip_and_zip ==
    /\ ecall.op = "export_simulator_configuration" /\ ecall.pc = "copying"
    /\ ecall.todo = <<>>
    /\ LET outcome == ZipWriteOutcome(SimZipEntries) IN
       IF outcome = "ok"
       THEN /\ archives' = ArchivesAfterWrite(SimZipEntries)
            /\ staging' = [staging EXCEPT
                              ![ecall.folder] = WithoutSimFolder(@)]
            /\ ecall' = [ecall EXCEPT !.pc = "done", !.status = "returned",
                                      !.stripped = TRUE,
                                      !.result = ecall.folder]
       ELSE /\ ecall' = [ecall EXCEPT !.pc = "done", !.status = outcome,
                                      !.stripped = TRUE]
            /\ UNCHANGED <<archives, staging>>
    /\ UNCHANGED <<facadeVars, syncVars, tree, last, tvbZip, clock>>

\* ------------------------------------------------------------------------
\* The export subsystem: one ExportManager and its StorageInterface, used
\* by one caller at a time.
\* ------------------------------------------------------------------------
InitSyncIdle ==
    /\ encryptionEnabled = TRUE
    /\ usage = [n \in Names |-> 0]
    /\ running = [n \in Names |-> 0]
    /\ queue = <<>>
    /\ plain = SyncFolders
    /\ enc = {}
    /\ errorLogged = FALSE
    /\ constructed = {RenameInstance}
    /\ cthread = [i \in Instances |-> "new"]
    /\ citem = [i \in Instances |-> NoItem]
    /\ mpc = [t \in Movers |-> "idle"]
    /\ mdir = [t \in Movers |-> "none"]
    /\ renameResult = NoRename
    /\ InitRemoveIdle

InitExportSpec == InitSyncIdle /\ InitExport /\ InitFacade

NextExport ==
    \/ \E data \in {"None", "dt"},
          exporter_id \in {"None", "Unknown", "TVBExporter"},
          project \in {"None", "P"}, accepts \in BOOLEAN,
          created \in BOOLEAN :
            export_data(data, exporter_id, project, accepts, created)
    \/ \E file \in ExportFiles : exporter_writes_file(file)
    \/ export_data_returns
    \/ export_data_raises
    \/ \E dts \in SeqsUpTo(Ops, 1), exclude \in SUBSET Ops,
          linked \in {"None", "linked.h5"}, optimize_size \in BOOLEAN :
            export_project("P", dts, exclude, linked, optimize_size)
    \/ export_project_writes /\ UNCHANGED last
    \/ export_project_link_raises
    \/ \E project \in {"None", "P"}, stored \in {"None", "linked.h5"} :
            manager_export_project(project, stored)
    \/ \E p \in DOMAIN archives : namelist(p)
    \/ \E burst \in {"None", "b"}, vms \in VmLists, dts \in DtLists :
            export_simulator_configuration(burst, vms, dts)
    \/ sim_copy_file
    \/ sim_copy_raises
    \/ sim_strip_raises
    \/ sim_strip_and_zip

SpecExport == InitExportSpec /\ [][NextExport]_vars

\* ------------------------------------------------------------------------
\* Claims about the sync subsystem (checked under Spec)
\* ------------------------------------------------------------------------
BothCountersZero(f) == usage[f] = 0 /\ running[f] = 0

\* No further counter change is pending and the queue has fully drained:
\* the queue is empty, no consumer is inside an item and no
\* move_datatype_with_sync call is under way.
Quiescent ==
    /\ queue = <<>>
    /\ ConsumersSyncing = {}
    /\ \A t \in Movers : mpc[t] \in {"idle", "done", "raised"}

\* The claim's setting: one background consumer drains the queue.
SingleConsumer == Cardinality({i \in Instances : cthread[i] # "new"}) <= 1

\* The folder has gone through at least one counter change: it is in use
\* or it has an encrypted counterpart.
Activated(f) == is_in_usage(f) \/ f \in enc

C2_NoConcurrentSync ==
    \A f \in SyncFolders : \A t \in MoversSyncing :
        /\ \A i \in ConsumersSyncing : citem[i].folder # f
        /\ MoversSyncing = {t}

\* C3: in the whole process at most one folder-queue consumer thread is
\* running, however many StorageInterface objects were built and started.
C3_AtMostOneConsumer == Cardinality(RunningConsumers) <= 1

\* C10: the file moves of move_datatype_with_sync happen while the target
\* project is marked active and after the first sync, and the destination
\* folder is in plaintext for the whole duration of the moves.
C10_PlaintextDuringMoves ==
    \A f \in SyncFolders : \A t \in Movers :
        mpc[t] \in {"moving_data", "moving_vm"}
            => (usage[f] > 0 /\ f \in plain)

\* A step puts a new request at the end of the queue.
Enqueued == queue' # <<>> /\ queue' = Append(SubSeq(queue', 1, Len(queue') - 1),
                                              queue'[Len(queue')])
                /\ (SubSeq(queue', 1, Len(queue') - 1) = queue
                    \/ (queue # <<>>
                        /\ SubSeq(queue', 1, Len(queue') - 1) = Tail(queue)
                        /\ Len(queue') = Len(queue)))

\* A step takes a counter of folder f from 0 to 1.
LeavesZero(f) ==
    \/ usage[f] = 0 /\ usage'[f] = 1
    \/ running[f] = 0 /\ running'[f] = 1

\* A step raises a counter of folder f.
Increments(f) == usage'[f] > usage[f] \/ running'[f] > running[f]

C20_ActivationMatchedOnExit ==
    [][\A t \in Movers :
        (mpc[t] \notin {"done", "raised"} /\ mpc'[t] \in {"done", "raised"})
            => \E f \in SyncFolders : usage'[f] = usage[f] - 1]_vars

\* ------------------------------------------------------------------------
\* Claims about rename_project (checked under SpecRename)
\* ------------------------------------------------------------------------
\* A step is a rename_project call: the call counter of the result moves.
RenameCalled == renameResult'.n # renameResult.n

\* What a rename_project call that does not raise does to the folders: the
\* plaintext folder is renamed and the encrypted counterpart, if there is
\* one, is moved to the path computed from the new name.
RenameCarriedOut ==
    LET r == renameResult' IN
    /\ r.status = "renamed"
    /\ r.from \in plain => (r.to \in plain' /\ r.from \notin plain')
    /\ r.from \in enc => (r.to \in enc' /\ r.from \notin enc')

C5_ManagerExportReturnsArchive ==
    (ecall.op = "export_project" /\ ecall.pc = "done"
        /\ ecall.status # "ExportException")
        => (ecall.status = "returned" /\ ecall.result \in DOMAIN archives)

\* C6: in optimized mode no operation id of the exclusion list (operations
\* with error) is among the operation folders packed into the zip, for
\* every list of visible datatypes passed to export_project.
C6_NoErrorOperationPacked ==
    (ecall.op = "facade_export_project" /\ ecall.optimize
        /\ ecall.status = "returned")
        => \A i \in DOMAIN ecall.packs :
                ecall.packs[i].name \notin ecall.exclude

\* C14: in optimized mode the packs are exactly one per distinct operation
\* id among the visible datatypes supplied, an operation shared by several
\* datatypes packed once, each pack written under the prefix made of its
\* operation id and the path separator, and Project.xml is in the archive.
C14_OptimizedPacksDeduplicated ==
    (ecall.op = "facade_export_project" /\ ecall.optimize)
        => /\ ecall.pc = "packing"
                => /\ {ecall.packs[i].name : i \in DOMAIN ecall.packs}
                        = {ecall.dts[j] : j \in DOMAIN ecall.dts}
                   /\ \A i, j \in DOMAIN ecall.packs :
                        ecall.packs[i].name = ecall.packs[j].name => i = j
           /\ \A i \in DOMAIN ecall.packs :
                /\ ecall.packs[i].kind = "op"
                /\ ecall.packs[i].prefix = ecall.packs[i].name \o "/"
           /\ ecall.status = "returned"
                => /\ \A i \in DOMAIN ecall.packs :
                        <<ecall.packs[i].name \o "/", "datatype.h5">>
                            \in archives[ecall.result]
                   /\ <<"", "Project.xml">> \in archives[ecall.result]

\* C14 witness: two visible datatypes of one operation were supplied to an
\* optimized export and one pack was made for them.
C14_Witness ==
    /\ ecall.op = "facade_export_project" /\ ecall.optimize
    /\ ecall.pc = "packing"
    /\ Len(ecall.dts) = 2 /\ ecall.dts[1] = ecall.dts[2]
    /\ Len(ecall.packs) = 1

\* C15: in full mode the one pack is the whole project folder with an
\* empty prefix, its exclusion is the error-operation folders together
\* with TEMP, and the archive holds every other folder of the project and
\* Project.xml.
C15_FullModePacksProjectFolder ==
    (ecall.op = "facade_export_project" /\ ~ecall.optimize)
        => /\ ecall.packs = <<[kind |-> "project", name |-> "P",
                               prefix |-> "",
                               exclude |-> ecall.exclude \cup {"TEMP"}]>>
           /\ ecall.status = "returned"
                => archives[ecall.result] \ LinkedEntries(ecall.linked)
                    = {<<d \o "/", "datatype.h5">> :
                            d \in Ops \ ecall.exclude}
                        \cup {<<"", "Project.xml">>}

\* C15 witness: a full export with an operation in the exclusion list has
\* returned.
C15_Witness ==
    /\ ecall.op = "facade_export_project" /\ ~ecall.optimize
    /\ ecall.status = "returned"
    /\ ecall.exclude = {"2"}
    /\ <<"1/", "datatype.h5">> \in archives[ecall.result]

\* C16: an import operation is made for an export exactly when the project
\* has a linked datatype: without links _export_linked_datatypes yields
\* (None, None) and the archive gets nothing for links; with links it
\* yields the operation with the fixed id in finished status and every
\* linked file is in the archive under the folder name of that operation.
C16_LinkedDatatypesExported ==
    (ecall.op = "export_project" /\ ecall.pc = "done"
        /\ ecall.status # "ExportException")
        => IF ecall.linked = "None"
           THEN ecall.importOp = "None"
           ELSE /\ ecall.importOp = [id |-> LinksFolder,
                                     status |-> "STATUS_FINISHED"]
                /\ ecall.result \in DOMAIN archives
                /\ LinkedEntries(ecall.linked)
                        \subseteq archives[ecall.result]

\* An export_project call returns in this step.
ExportReturns ==
    /\ ecall.op = "facade_export_project" /\ ecall.pc = "packing"
    /\ ecall'.status = "returned"

\* C17: an export that returns leaves nothing behind in the project tree
\* and removes no folder of the project from it, and when the export
\* before it was made with the same packs, links and mode, the two
\* archives have the same set of entry names.
C17_RepeatedExportSameEntries ==
    [][ExportReturns =>
        /\ tree' \subseteq tree
        /\ tree' \cap ProjectDirs = tree \cap ProjectDirs
        /\ (last.set /\ last.inputs = ExportInputs)
                => archives'[ecall'.result] = last.entries]_vars

\* C17 witness: two exports with links have returned, the second made as
\* the first, and their archives hold the same entries.
C17_Witness ==
    /\ clock = 2
    /\ ecall.op = "facade_export_project" /\ ecall.status = "returned"
    /\ ecall.linked # "None"
    /\ last.set /\ last.inputs = ExportInputs
    /\ archives[1] = archives[2]
    /\ archives[2] # {}

\* C7: for every existing burst export_simulator_configuration returns the
\* path of a zip archive holding every view-model under exported_simulation
\* and every dataset under exported_simulation/datatypes, the root
\* view-model stripped of history_gid, written by an archive this call
\* opened for the returned path.
C7_SimulatorArchiveComplete ==
    (ecall.op = "export_simulator_configuration" /\ ecall.pc = "done"
        /\ ecall.status # "InvalidExportDataException"
        /\ ecall.status # "OSError")
        => /\ ecall.status = "returned"
           /\ ecall.stripped
           /\ tvbZip.set /\ tvbZip.path = ecall.result
           /\ ecall.result \in DOMAIN archives
           /\ \A i \in DOMAIN ecall.vms :
                VmDest(ecall.vms[i]) \in archives[ecall.result]
           /\ \A i \in DOMAIN ecall.dts :
                DtDest(ecall.dts[i]) \in archives[ecall.result]

\* C8: once export_data has created its staging folder, when the call has
\* returned or the exporter has raised the folder no longer exists if no
\* file was produced into it, and a folder that holds a produced file is
\* still there with its files.
C8_StagingFolderCleanup ==
    (ecall.op = "export_data" /\ ecall.folder # 0)
        => /\ ecall.pc = "exporting" => ecall.folder \in DOMAIN staging
           /\ (ecall.pc = "done" /\ ecall.produced = {})
                => ecall.folder \notin DOMAIN staging
           /\ (ecall.pc = "done" /\ ecall.produced # {})
                => /\ ecall.folder \in DOMAIN staging
                   /\ ecall.produced \subseteq staging[ecall.folder]

\* C8 witness: the exporter raised before it produced a file and the
\* staging folder the call had created is gone.
C8_Witness ==
    /\ ecall.op = "export_data" /\ ecall.pc = "done"
    /\ ecall.status = "ExporterError"
    /\ ecall.folder # 0
    /\ ecall.produced = {}
    /\ ecall.folder \notin DOMAIN staging

\* An export_data call is made in this step with these arguments.
ExportDataCalled(data, exporter_id, project, accepts) ==
    /\ CallFree
    /\ ecall'.op = "export_data"
    /\ ecall'.args = <<data, exporter_id, project, accepts>>

\* The call made in this step was turned down with this error before any
\* staging folder was made.
TurnedDownWith(error) ==
    /\ ecall'.pc = "done" /\ ecall'.status = error
    /\ ecall'.folder = 0
    /\ staging' = staging /\ clock' = clock

\* C18 (as worded): export_data with data, a registered exporter and a
\* project, where the exporter does not accept the data, fails with
\* ExportException and makes no staging folder.
C18_RejectedDataIsExportException ==
    [][\A id \in RegisteredExporters :
        ExportDataCalled("dt", id, "P", FALSE)
            => TurnedDownWith("ExportException")]_vars

\* C18 (narrowed): export_data with data, a registered exporter and a
\* project, where the exporter does not accept the data, fails with
\* InvalidExportDataException and makes no staging folder.
C18_RejectedDataIsInvalidExportData ==
    [][\A id \in RegisteredExporters :
        ExportDataCalled("dt", id, "P", FALSE)
            => TurnedDownWith("InvalidExportDataException")]_vars

\* C18 witness: a call with data the registered exporter does not accept
\* has ended with InvalidExportDataException and no staging folder.
C18_Witness ==
    /\ ecall.op = "export_data" /\ ecall.pc = "done"
    /\ ecall.args = <<"dt", "TVBExporter", "P", FALSE>>
    /\ ecall.status = "InvalidExportDataException"
    /\ ecall.folder = 0

\* C19: export_data with data and an exporter id that is not registered,
\* or with data and no project, fails with ExportException before any
\* staging folder is made, and export_project(None) fails with
\* ExportException with no staging folder and no archive made.
C19_UnregisteredOrNoProject ==
    [][/\ \A id \in {"None", "Unknown", "TVBExporter"},
            project \in {"None", "P"}, accepts \in BOOLEAN :
            (ExportDataCalled("dt", id, project, accepts)
                /\ (id \notin RegisteredExporters \/ project = "None"))
                => TurnedDownWith("ExportException")
       /\ (CallFree /\ ecall'.op = "export_project"
                /\ ecall'.args = <<"None">>)
            => (TurnedDownWith("ExportException") /\ archives' = archives)
      ]_vars

\* C19 witness: a call with a registered exporter that accepts the data
\* but with no project has ended with ExportException and no staging
\* folder.
C19_Witness ==
    /\ ecall.op = "export_data" /\ ecall.pc = "done"
    /\ ecall.args = <<"dt", "TVBExporter", "None", TRUE>>
    /\ ecall.status = "ExportException"
    /\ ecall.folder = 0

\* C9: once export_simulator_configuration has created its staging folder,
\* exported_simulation is gone when the call has ended, whether the path
\* was returned or a copy, the metadata strip or the zip step raised.
C9_SimStagingRemoved ==
    (ecall.op = "export_simulator_configuration" /\ ecall.pc = "done"
        /\ ecall.folder # 0)
        => WithoutSimFolder(staging[ecall.folder]) = staging[ecall.folder]

\* ------------------------------------------------------------------------
\* The argument checks of the export manager: export_data and
\* export_project are called again and again with every kind of argument.
\* ------------------------------------------------------------------------
NextExportData ==
    \/ \E data \in {"None", "dt"},
          exporter_id \in {"None", "Unknown", "TVBExporter"},
          project \in {"None", "P"}, accepts \in BOOLEAN,
          created \in BOOLEAN :
            export_data(data, exporter_id, project, accepts, created)
    \/ \E file \in ExportFiles : exporter_writes_file(file)
    \/ export_data_returns
    \/ export_data_raises
    \/ \E project \in {"None", "P"}, stored \in {"None", "linked.h5"} :
            manager_export_project(project, stored)

SpecExportData == InitExportSpec /\ [][NextExportData]_vars

\* ------------------------------------------------------------------------
\* Repeated exports: StorageInterface.export_project is called again and
\* again on one project whose data, operations and links stay as they are;
\* what each export that returned was called with and wrote is remembered.
\* ------------------------------------------------------------------------
NextTwice ==
    \/ \E dts \in SeqsUpTo(Ops, MaxDts), exclude \in SUBSET Ops,
          linked \in {"None", "linked.h5"}, optimize_size \in BOOLEAN :
            export_project("P", dts, exclude, linked, optimize_size)
    \/ export_project_writes /\ last' = LastAfterExport
    \/ export_project_link_raises
    \/ \E p \in DOMAIN archives : namelist(p)

SpecTwice == InitExportSpec /\ [][NextTwice]_vars

\* ------------------------------------------------------------------------
\* StorageInterface.remove_project, one step per statement
\* ------------------------------------------------------------------------
\* A remove_project that goes on to the encrypted folder when the removal
\* of the project structure has failed.
PcAfterStructureFailure_GoOn == "encrypted"

\* Where remove_project is once remove_project_structure has raised: the
\* exception leaves the method.
PcAfterStructureFailure == "done"

RemoveFree == rm.pc \in {"idle", "done"}

\* remove_project(project) is called; remove_project_structure starts.
remove_project(p) ==
    /\ RemoveFree
    /\ rm' = [pc |-> "structure", project |-> p, status |-> "running",
              enc0 |-> p \in enc, key0 |-> p \in keys]
    /\ UNCHANGED <<encryptionEnabled, usage, running, queue, plain, enc,
                   errorLogged, constructed, cthread, citem, mpc, mdir,
                   renameResult, keys, exportVars, facadeVars>>

\* remove_project_structure returns: the plaintext project folder is gone.
remove_structure_done ==
    /\ rm.pc = "structure"
    /\ plain' = plain \ {rm.project}
    /\ rm' = [rm EXCEPT !.pc = "encrypted"]
    /\ UNCHANGED <<encryptionEnabled, usage, running, queue, enc,
                   errorLogged, constructed, cthread, citem, mpc, mdir,
                   renameResult, keys, exportVars, facadeVars>>

\* remove_project_structure raises.
remove_structure_raises ==
    /\ rm.pc = "structure"
    /\ rm' = [rm EXCEPT !.pc = PcAfterStructureFailure,
                        !.status = "StructureError"]
    /\ UNCHANGED <<encryptionEnabled, usage, running, queue, plain, enc,
                   errorLogged, constructed, cthread, citem, mpc, mdir,
                   renameResult, keys, exportVars, facadeVars>>

\* The encrypted counterpart, if it exists, is removed with remove_folder.
remove_encrypted_done ==
    /\ rm.pc = "encrypted"
    /\ enc' = enc \ {rm.project}
    /\ rm' = [rm EXCEPT !.pc = "key"]
    /\ UNCHANGED <<encryptionEnabled, usage, running, queue, plain,
                   errorLogged, constructed, cthread, citem, mpc, mdir,
                   renameResult, keys, exportVars, facadeVars>>

\* remove_folder raises on the encrypted counterpart, which stays.
remove_encrypted_raises ==
    /\ rm.pc = "encrypted"
    /\ rm.project \in enc
    /\ rm' = [rm EXCEPT !.pc = "done", !.status = "FolderError"]
    /\ UNCHANGED <<encryptionEnabled, usage, running, queue, plain, enc,
                   errorLogged, constructed, cthread, citem, mpc, mdir,
                   renameResult, keys, exportVars, facadeVars>>

\* The project key file, if it exists, is removed; remove_project returns.
remove_key_done ==
    /\ rm.pc = "key"
    /\ keys' = keys \ {rm.project}
    /\ rm' = [rm EXCEPT !.pc = "done", !.status = "returned"]
    /\ UNCHANGED <<encryptionEnabled, usage, running, queue, plain, enc,
                   errorLogged, constructed, cthread, citem, mpc, mdir,
                   renameResult, exportVars, facadeVars>>

\* os.remove raises on the key file, which stays.
remove_key_raises ==
    /\ rm.pc = "key"
    /\ rm.project \in keys
    /\ rm' = [rm EXCEPT !.pc = "done", !.status = "KeyFileError"]
    /\ UNCHANGED <<encryptionEnabled, usage, running, queue, plain, enc,
                   errorLogged, constructed, cthread, citem, mpc, mdir,
                   renameResult, keys, exportVars, facadeVars>>

\* Projects on disk before a removal: each with or without its plaintext
\* folder, with no key, with a key, or with a key and an encrypted folder.
InitRemove ==
    /\ encryptionEnabled = TRUE
    /\ usage = [n \in Names |-> 0]
    /\ running = [n \in Names |-> 0]
    /\ queue = <<>>
    /\ plain \in SUBSET Names
    /\ keys \in SUBSET Names
    /\ enc \in SUBSET keys
    /\ errorLogged = FALSE
    /\ constructed = {RenameInstance}
    /\ cthread = [i \in Instances |-> "new"]
    /\ citem = [i \in Instances |-> NoItem]
    /\ mpc = [t \in Movers |-> "idle"]
    /\ mdir = [t \in Movers |-> "none"]
    /\ renameResult = NoRename
    /\ rm = NoRemove
    /\ InitExport
    /\ InitFacade

NextRemove ==
    \/ \E p \in Names : remove_project(p)
    \/ remove_structure_done
    \/ remove_structure_raises
    \/ remove_encrypted_done
    \/ remove_encrypted_raises
    \/ remove_key_done
    \/ remove_key_raises

SpecRemove == InitRemove /\ [][NextRemove]_vars

\* C11: remove_project removes the encrypted counterpart and the key file
\* only after the removal of the plaintext structure has succeeded; when
\* that removal fails both are left as they were; the key file is never
\* removed while the encrypted folder exists.
C11_EncryptedRemovedAfterPlaintext ==
    /\ [](rm.status = "StructureError"
            => /\ (rm.project \in enc) = rm.enc0
               /\ (rm.project \in keys) = rm.key0)
    /\ [][/\ enc' # enc => (rm.pc = "encrypted" /\ rm.project \notin plain)
          /\ keys' # keys
                => /\ rm.project \notin plain
                   /\ rm.project \notin enc /\ rm.project \notin enc'
         ]_vars

\* C11 witness: the removal of the plaintext structure of a project with an
\* encrypted counterpart has failed and the encrypted folder and the key
\* file are still there.
C11_Witness ==
    /\ rm.pc = "done" /\ rm.status = "StructureError"
    /\ rm.enc0 /\ rm.key0
    /\ rm.project \in enc /\ rm.project \in keys /\ rm.project \in plain

\* ------------------------------------------------------------------------
\* The consumer lifecycle: one StorageInterface whose consumer is started,
\* marked to stop and joined while counters change. The thread is scheduled
\* (an item in hand is brought to an end, the mark is looked at) and the
\* caller that stops the consumer joins it.
\* ------------------------------------------------------------------------
NextLifecycle ==
    \/ \E f \in SyncFolders : inc_project_usage_count(f)
    \/ \E f \in SyncFolders : inc_running_op_count(f)
    \/ \E f \in SyncFolders : dec_running_op_count(f)
    \/ \E f \in SyncFolders : push_folder_to_sync(f)
    \/ start(RenameInstance)
    \/ ConsumerPop(RenameInstance)
    \/ ConsumerSyncDone(RenameInstance)
    \/ ConsumerSyncFails(RenameInstance)
    \/ mark_stop(RenameInstance)
    \/ ConsumerExit(RenameInstance)
    \/ join(RenameInstance)

SpecLifecycle ==
    /\ InitExportSpec
    /\ [][NextLifecycle]_vars
    /\ WF_vars(ConsumerSyncDone(RenameInstance)
                \/ ConsumerSyncFails(RenameInstance))
    /\ WF_vars(ConsumerExit(RenameInstance))
    /\ WF_vars(join(RenameInstance))

\* The consumer has been marked to stop.
MarkedToStop(i) ==
    cthread[i] \in {"marked", "syncing_marked", "exited", "joined"}

\* The item a consumer had in hand was brought to its end: the sync was
\* applied or its failure logged.
ItemFinished(i) ==
    \/ /\ plain' = PlainAfterSync(citem[i].folder, citem[i].dir)
       /\ enc' = EncAfterSync(citem[i].folder, citem[i].dir)
    \/ errorLogged'

EncryptionOps == {"cleanup", "encrypt_inputs", "decrypt_results_to_dir",
                  "decrypt_files_to_dir", "get_encrypted_dir",
                  "get_password_file"}

\* EncryptionHandler (modelled from the specification, sections 3 and 4.1):
\* each dir_gid has one encrypted-directory path and one password-file path.
EncryptedDirOf(g) == <<"encrypted", g>>
PasswordFileOf(g) == <<"password", g>>

\* cleanup deletes the encrypted payload and the key material (a no-op when
\* they are gone); encrypt_inputs makes the directory and, if absent, the
\* key; the other methods read and leave the disk as it is.
EncDirsAfter(op, g) ==
    IF op = "cleanup" THEN encDirs \ {EncryptedDirOf(g)}
    ELSE IF op = "encrypt_inputs" THEN encDirs \cup {EncryptedDirOf(g)}
    ELSE encDirs

PassFilesAfter(op, g) ==
    IF op = "cleanup" THEN passFiles \ {PasswordFileOf(g)}
    ELSE IF op = "encrypt_inputs" THEN passFiles \cup {PasswordFileOf(g)}
    ELSE passFiles

\* What the method hands back: the path it was asked for, the encrypted
\* paths, or nothing.
HandlerResult(op, g) ==
    IF op \in {"get_encrypted_dir", "encrypt_inputs"} THEN EncryptedDirOf(g)
    ELSE IF op = "get_password_file" THEN PasswordFileOf(g)
    ELSE "none"

\* The handler the second statement finds: self.encryption_handler.
HandlerOfCall(c) == encryptionHandler

\* self.encryption_handler = EncryptionHandler(dir_gid)
encryption_call(c, op, dir_gid) ==
    /\ hcall[c].pc \in {"idle", "done"}
    /\ encryptionHandler' = dir_gid
    /\ hcall' = [hcall EXCEPT ![c] = [NoHandlerCall EXCEPT
                                         !.op = op, !.dir_gid = dir_gid,
                                         !.pc = "built"]]
    /\ UNCHANGED <<syncVars, exportVars, encDirs, passFiles, zcall, acall>>

\* return self.encryption_handler.<method>(...)
encryption_call_runs(c) ==
    /\ hcall[c].pc = "built"
    /\ LET g == HandlerOfCall(c)
           op == hcall[c].op
       IN /\ encDirs' = EncDirsAfter(op, g)
          /\ passFiles' = PassFilesAfter(op, g)
          /\ hcall' = [hcall EXCEPT ![c].pc = "done", ![c].acted = g,
                                    ![c].result = HandlerResult(op, g)]
    /\ UNCHANGED <<syncVars, exportVars, encryptionHandler, zcall, acall>>

\* Two threads use the encryption methods of one StorageInterface.
NextEncryption ==
    \/ \E c \in Callers, op \in EncryptionOps, g \in DirGids :
            encryption_call(c, op, g)
    \/ \E c \in Callers : encryption_call_runs(c)

SpecEncryption == InitExportSpec /\ [][NextEncryption]_vars

\* C21: when two threads call encryption operations on one StorageInterface
\* with different dir_gid values, each call acts on the encrypted directory
\* and the password file of the dir_gid passed to it, never on those of the
\* other call's dir_gid: a call that has run acted on its own dir_gid, got
\* the path of its own dir_gid, and a step of a call changes on disk only
\* the directory and the password file of the call's dir_gid.
C21_CallActsOnOwnDirGid ==
    [][\A c \in Callers :
          hcall'[c].pc = "done" /\ hcall[c].pc = "built" =>
             /\ hcall'[c].acted = hcall[c].dir_gid
             /\ hcall'[c].result = HandlerResult(hcall[c].op, hcall[c].dir_gid)
             /\ \A g \in DirGids \ {hcall[c].dir_gid} :
                   /\ EncryptedDirOf(g) \in encDirs' <=> EncryptedDirOf(g) \in encDirs
                   /\ PasswordFileOf(g) \in passFiles' <=> PasswordFileOf(g) \in passFiles]_vars

\* ------------------------------------------------------------------------
\* StorageInterface: the TvbZip methods called by another thread while an
\* export_project call is between its initialize_tvb_zip and its
\* close_tvb_zip. Every one of them goes through self.tvb_zip.
\* ------------------------------------------------------------------------
\* An archive that was uploaded before, and the calls of the other thread.
UploadedZip == 0
ZipOps == {"namelist", "unpack_zip", "initialize_tvb_zip"}

\* unpack_zip opens its archive with the default mode; namelist and
\* initialize_tvb_zip pass the mode on.
ZipCallModes(op) == IF op = "unpack_zip" THEN {"r"} ELSE {"r", "w"}

\* TvbZip(dest_path, "w") (modelled from the specification) makes or
\* empties the file; the mode "r" leaves it as it is.
ArchivesAfterOpen(dest, mode) ==
    IF mode = "w" THEN (dest :> {}) @@ Without(archives, dest) ELSE archives

\* initialize_tvb_zip(dest_path, mode), called for itself or as the first
\* statement of namelist and unpack_zip.
zip_call_initialize(op, dest, mode) ==
    /\ zcall.pc \in {"idle", "done"}
    /\ mode \in ZipCallModes(op)
    /\ mode = "r" => dest \in DOMAIN archives
    /\ tvbZip' = ZipAfterInitialize(dest, mode)
    /\ archives' = ArchivesAfterOpen(dest, mode)
    /\ zcall' = [op |-> op,
                 pc |-> IF op = "initialize_tvb_zip" THEN "done" ELSE "opened",
                 path |-> dest, used |-> 0]
    /\ UNCHANGED <<syncVars, staging, clock, ecall, tree, last,
                   encryptionHandler, hcall, encDirs, passFiles, acall>>

\* self.tvb_zip.namelist() / self.tvb_zip.unpack_zip(folder_path): the
\* archive that is read is the one self.tvb_zip holds by now.
zip_call_reads ==
    /\ zcall.pc = "opened"
    /\ tvbZip.set
    /\ zcall' = [zcall EXCEPT !.pc = "read", !.used = tvbZip.path]
    /\ UNCHANGED <<syncVars, exportVars, encryptionHandler, hcall, encDirs,
                   passFiles, acall>>

\* self.close_tvb_zip() of namelist and unpack_zip.
zip_call_closes ==
    /\ zcall.pc = "read"
    /\ tvbZip' = ZipAfterClose(tvbZip)
    /\ zcall' = [zcall EXCEPT !.pc = "done"]
    /\ UNCHANGED <<syncVars, archives, staging, clock, ecall, tree, last,
                   encryptionHandler, hcall, encDirs, passFiles, acall>>

\* One archive is on disk before the first export.
InitZip ==
    /\ InitSyncIdle
    /\ InitFacade
    /\ tvbZip = NoZip
    /\ archives = (UploadedZip :> {<<"", "uploaded.h5">>})
    /\ staging = [x \in {} |-> {}]
    /\ clock = 0
    /\ ecall = NoCall
    /\ tree = ProjectDirs
    /\ last = NoLast

NextZip ==
    \/ \E dts \in SeqsUpTo(Ops, 1), linked \in {"None", "linked.h5"},
          optimize_size \in BOOLEAN :
            export_project("P", dts, {}, linked, optimize_size)
    \/ export_project_writes /\ UNCHANGED last
    \/ export_project_link_raises
    \/ \E op \in ZipOps, dest \in DOMAIN archives, mode \in {"r", "w"} :
            zip_call_initialize(op, dest, mode)
    \/ zip_call_reads
    \/ zip_call_closes

SpecZip == InitZip /\ [][NextZip]_vars

\* An export_project call is between its initialize_tvb_zip and its
\* close_tvb_zip; the step in which it writes its entries.
ExportPacking == ecall.op = "facade_export_project" /\ ecall.pc = "packing"
ExportWrites == ExportPacking /\ ecall'.pc = "done"

\* C22: every entry that an export_project call writes goes into the
\* archive that this same call opened, and that archive is still open until
\* the call closes it, even when another thread calls namelist, unpack_zip
\* or initialize_tvb_zip on the same StorageInterface in between: while the
\* call is packing, self.tvb_zip is the open archive of the call, and the
\* writing step of the call changes no other archive and ends without a
\* write error.
C22_ExportWritesItsOwnArchive ==
    [][/\ ExportPacking => tvbZip = ZipAfterInitialize(ecall.folder, "w")
       /\ ExportWrites =>
            /\ ecall'.status \notin {"ValueError", "AttributeError"}
            /\ \A p \in DOMAIN archives \ {ecall.folder} :
                  p \in DOMAIN archives' /\ archives'[p] = archives[p]]_vars

\* ------------------------------------------------------------------------
\* StorageInterface.get_allen_mouse_cache_folder: the body of the method is
\* a call of the method itself with the same argument. Each call stacks a
\* frame of the calling thread; the interpreter raises RecursionError in
\* the call that would pass the limit, and the exception leaves every
\* frame below it.
\* ------------------------------------------------------------------------
\* get_allen_mouse_cache_folder(project_name) is called by thread c.
get_allen_mouse_cache_folder(c, project_name) ==
    /\ acall[c].pc \in {"idle", "done"}
    /\ acall' = [acall EXCEPT ![c] = [pc |-> "running",
                                      project |-> project_name,
                                      depth |-> 1, status |-> "running"]]
    /\ UNCHANGED <<syncVars, exportVars, encryptionHandler, hcall, encDirs,
                   passFiles, zcall>>

\* return self.get_allen_mouse_cache_folder(project_name): one more frame.
allen_calls_itself(c) ==
    /\ acall[c].pc = "running"
    /\ acall[c].depth < MaxDepth
    /\ acall' = [acall EXCEPT ![c].depth = @ + 1]
    /\ UNCHANGED <<syncVars, exportVars, encryptionHandler, hcall, encDirs,
                   passFiles, zcall>>

\* The limit is reached: RecursionError ends the call.
allen_recursion_error(c) ==
    /\ acall[c].pc = "running"
    /\ acall[c].depth = MaxDepth
    /\ acall' = [acall EXCEPT ![c].pc = "done", ![c].depth = 0,
                              ![c].status = "RecursionError"]
    /\ UNCHANGED <<syncVars, exportVars, encryptionHandler, hcall, encDirs,
                   passFiles, zcall>>

NextAllen ==
    \/ \E c \in Callers, project_name \in Names :
            get_allen_mouse_cache_folder(c, project_name)
    \/ \E c \in Callers : allen_calls_itself(c)
    \/ \E c \in Callers : allen_recursion_error(c)

\* A thread that is in the method goes on running it.
SpecAllen ==
    /\ InitExportSpec
    /\ [][NextAllen]_vars
    /\ \A c \in Callers :
          WF_vars(allen_calls_itself(c) \/ allen_recursion_error(c))

\* C23: every call of get_allen_mouse_cache_folder(project_name) terminates
\* and returns a folder path: a call that has ended has returned a path,
\* and a call that is running comes to an end.
C23_AllenCallReturnsFolder ==
    /\ [](\A c \in Callers :
            acall[c].pc = "done" => acall[c].status = "returned")
    /\ \A c \in Callers :
          (acall[c].pc = "running") ~> (acall[c].pc = "done")

====
